---------------------------- MODULE Spec2Model ----------------------------
(***************************************************************************)
(* A model of the UTF-8 engine of src/utf8.h: the classifier, the checked  *)
(* decoder (internal::validate_next and the public next / prior), the      *)
(* encoder (append), the sanitizer (replace_invalid) and the bulk          *)
(* converters.                                                             *)
(*                                                                         *)
(* A buffer is a sequence of octets (0..255).  A position is an offset     *)
(* 0..Len(b) into it: the octet a position p designates is b[p + 1], and   *)
(* the position Len(b) is the end of the buffer.                           *)
(***************************************************************************)
EXTENDS Integers, Sequences, FiniteSets

VARIABLES
    buf,    \* the caller's octet buffer: read by the decoder, appended to by
            \* append through the caller's output iterator
    it,     \* the octet iterator the caller passes by reference
    prev,   \* the value `it` had when the last call was made
    op,     \* the last operation called ("none" before any call)
    err,    \* the utf_error the call's validate_next returned ("NOT_REACHED"
            \* when the call ended before it decoded anything)
    exc,    \* the exception the call threw: [type, val]
    cp,     \* the code point passed to or returned by the call
    arg,    \* the code point the caller passes in: append's cp, or the
            \* replacement given to replace_invalid
    out,    \* the output the call wrote through its output iterator
    back    \* the output of the converter applied to `out`

vars == <<buf, it, prev, op, err, exc, cp, arg, out, back>>

---------------------------------------------------------------------------
(* Bounds of the model and the sets the inputs are drawn from.             *)

\* The longest buffer handed to the decoder and the iterator operations.
MaxLen == 4

\* Octets of every role: ASCII, continuation octets, leads of 2, 3 and 4
\* octet sequences (overlong, valid, surrogate and out-of-range ones), and an
\* octet that is no lead at all.
ByteSet == {65, 128, 141, 160, 191, 192, 194, 224, 226, 237, 240, 244, 255}

Buffers(n) == UNION {[1..k -> ByteSet] : k \in 0..n}

---------------------------------------------------------------------------
(* Fixed-width arithmetic.                                                 *)

\* x << k, for the operands the decoder shifts: an octet moved left by at
\* most 18 bits stays below 2^32, so nothing is lost to the width.
Shl(x, k) == x * (2 ^ k)
\* x >> k on an unsigned value
Shr(x, k) == x \div (2 ^ k)

\* x & m for a mask m = 2^k - 1 (0x3f, 0x7ff, 0xfff, 0xffff, 0x3ffff,
\* 0x1fffff): the low k bits of x.
LowBits(x, k) == x % (2 ^ k)

RECURSIVE BitOr(_, _)
BitOr(a, b) ==
    IF a = 0 THEN b
    ELSE IF b = 0 THEN a
    ELSE (IF a % 2 = 1 \/ b % 2 = 1 THEN 1 ELSE 0) + 2 * BitOr(a \div 2, b \div 2)

\* static_cast<uint8_t>(x), static_cast<uint16_t>(x)
U8(x) == x % 256
U16(x) == x % 65536

\* A uint32_t whose arithmetic may wrap around is kept as its two 16 bit
\* halves, the model checker's integers being narrower than 2^32.
W32(n) == [hi |-> (n \div 65536) % 65536, lo |-> n % 65536]
Val32(w) == w.hi * 65536 + w.lo
\* x + y, x - y and x << k (k < 16) on uint32_t
Add32(x, y) ==
    [hi |-> (x.hi + y.hi + ((x.lo + y.lo) \div 65536)) % 65536,
     lo |-> (x.lo + y.lo) % 65536]
Sub32(x, y) ==
    [hi |-> (x.hi - y.hi - (IF x.lo < y.lo THEN 1 ELSE 0) + 131072) % 65536,
     lo |-> (x.lo - y.lo + 65536) % 65536]
Shl32(x, k) ==
    [hi |-> (x.hi * (2 ^ k) + ((x.lo * (2 ^ k)) \div 65536)) % 65536,
     lo |-> (x.lo * (2 ^ k)) % 65536]

---------------------------------------------------------------------------
(* Unicode constants.                                                      *)

LEAD_SURROGATE_MIN == 55296
LEAD_SURROGATE_MAX == 56319
TRAIL_SURROGATE_MIN == 56320
TRAIL_SURROGATE_MAX == 57343
\* LEAD_OFFSET with the shift of 0x10000 forgotten.
LEAD_OFFSET_unshifted == U16(LEAD_SURROGATE_MIN + 65536 - 65536)

LEAD_OFFSET == U16(LEAD_SURROGATE_MIN - Shr(65536, 10))
SURROGATE_OFFSET ==
    Sub32(Sub32(W32(65536), Shl32(W32(LEAD_SURROGATE_MIN), 10)),
          W32(TRAIL_SURROGATE_MIN))
CODE_POINT_MAX == 1114111

---------------------------------------------------------------------------
(* The classifier.                                                         *)

\* 0xff & oc and 0xffff & oc: the low 8 and 16 bits, whatever the width or
\* the sign of the element type.
mask8(oc) == oc % 256
mask16(oc) == oc % 65536

is_trail(oc) == Shr(mask8(oc), 6) = 2

is_lead_surrogate(c) == c >= LEAD_SURROGATE_MIN /\ c <= LEAD_SURROGATE_MAX
is_trail_surrogate(c) == c >= TRAIL_SURROGATE_MIN /\ c <= TRAIL_SURROGATE_MAX
is_surrogate(c) == c >= LEAD_SURROGATE_MIN /\ c <= TRAIL_SURROGATE_MAX

\* is_code_point_valid without the surrogate test.
is_code_point_valid_range_only(c) == c <= CODE_POINT_MAX

is_code_point_valid(c) == c <= CODE_POINT_MAX /\ ~is_surrogate(c)

\* The octet at position p of buffer b.
At(b, p) == b[p + 1]

sequence_length(b, lead_it) ==
    LET lead == mask8(At(b, lead_it))
    IN  IF lead < 128 THEN 1
        ELSE IF Shr(lead, 5) = 6 THEN 2
        ELSE IF Shr(lead, 4) = 14 THEN 3
        ELSE IF Shr(lead, 3) = 30 THEN 4
        ELSE 0

\* is_overlong_sequence without its last test: a four octet encoding of a
\* value below 0x10000 passes.
is_overlong_sequence_short(c, length) ==
    IF c < 128 THEN length # 1
    ELSE IF c < 2048 THEN length # 2
    ELSE FALSE

is_overlong_sequence(c, length) ==
    IF c < 128 THEN length # 1
    ELSE IF c < 2048 THEN length # 2
    ELSE IF c < 65536 THEN length # 3
    ELSE FALSE

---------------------------------------------------------------------------
(* The checked decoder.  A get_sequence_x in progress is a record: the     *)
(* error so far, the iterator, the code point accumulated and the set of   *)
(* positions dereferenced.  Once the error is not UTF8_OK the function has *)
(* returned, and the steps after it leave the record alone.                *)

increase_safely(b, i, end) ==
    IF i + 1 = end THEN [err |-> "NOT_ENOUGH_ROOM", it |-> i + 1, reads |-> {}]
    ELSE IF ~is_trail(At(b, i + 1))
         THEN [err |-> "INCOMPLETE_SEQUENCE", it |-> i + 1, reads |-> {i + 1}]
         ELSE [err |-> "UTF8_OK", it |-> i + 1, reads |-> {i + 1}]

\* The first lines of every get_sequence_x, and the whole of get_sequence_1.
get_sequence_1(b, i, end) ==
    IF i = end THEN [err |-> "NOT_ENOUGH_ROOM", it |-> i, cp |-> 0, reads |-> {}]
    ELSE [err |-> "UTF8_OK", it |-> i, cp |-> mask8(At(b, i)), reads |-> {i}]

\* increase_safely's result taken into the record of the sequence.
increase_result(st, r) ==
    [err |-> r.err, it |-> r.it, cp |-> st.cp, reads |-> st.reads \cup r.reads]

\* UTF8_CPP_INCREASE_AND_RETURN_ON_ERROR(it, end)
INCREASE_AND_RETURN_ON_ERROR(b, end, st) ==
    IF st.err # "UTF8_OK" THEN st
    ELSE increase_result(st, increase_safely(b, st.it, end))

\* code_point = ((code_point << 6) & 0x7ff) + ((*it) & 0x3f);
assemble_2(b, st) ==
    IF st.err # "UTF8_OK" THEN st
    ELSE [st EXCEPT !.cp = LowBits(Shl(st.cp, 6), 11) + LowBits(At(b, st.it), 6)]

\* code_point = ((code_point << 12) & 0xffff) + ((mask8(*it) << 6) & 0xfff);
assemble_3(b, st) ==
    IF st.err # "UTF8_OK" THEN st
    ELSE [st EXCEPT !.cp = LowBits(Shl(st.cp, 12), 16)
                           + LowBits(Shl(mask8(At(b, st.it)), 6), 12)]

\* code_point = ((code_point << 18) & 0x1fffff) + ((mask8(*it) << 12) & 0x3ffff);
assemble_4(b, st) ==
    IF st.err # "UTF8_OK" THEN st
    ELSE [st EXCEPT !.cp = LowBits(Shl(st.cp, 18), 21)
                           + LowBits(Shl(mask8(At(b, st.it)), 12), 18)]

\* code_point += (mask8(*it) << 6) & 0xfff;
add_middle(b, st) ==
    IF st.err # "UTF8_OK" THEN st
    ELSE [st EXCEPT !.cp = st.cp + LowBits(Shl(mask8(At(b, st.it)), 6), 12)]

\* code_point += (*it) & 0x3f;
add_last(b, st) ==
    IF st.err # "UTF8_OK" THEN st
    ELSE [st EXCEPT !.cp = st.cp + LowBits(At(b, st.it), 6)]

get_sequence_2(b, i, end) ==
    assemble_2(b,
      INCREASE_AND_RETURN_ON_ERROR(b, end,
        get_sequence_1(b, i, end)))

get_sequence_3(b, i, end) ==
    add_last(b,
      INCREASE_AND_RETURN_ON_ERROR(b, end,
        assemble_3(b,
          INCREASE_AND_RETURN_ON_ERROR(b, end,
            get_sequence_1(b, i, end)))))

get_sequence_4(b, i, end) ==
    add_last(b,
      INCREASE_AND_RETURN_ON_ERROR(b, end,
        add_middle(b,
          INCREASE_AND_RETURN_ON_ERROR(b, end,
            assemble_4(b,
              INCREASE_AND_RETURN_ON_ERROR(b, end,
                get_sequence_1(b, i, end)))))))

\* security_checks with the two checks in the other order.
security_checks_overlong_first(c, length) ==
    IF ~is_overlong_sequence(c, length)
    THEN IF is_code_point_valid(c)
         THEN "UTF8_OK"
         ELSE "INVALID_CODE_POINT"
    ELSE "OVERLONG_SEQUENCE"

\* The security checks validate_next applies to a decoded value, in its
\* order: the validity of the code point, then the length of the encoding.
security_checks(c, length) ==
    IF is_code_point_valid(c)
    THEN IF ~is_overlong_sequence(c, length)
         THEN "UTF8_OK"
         ELSE "OVERLONG_SEQUENCE"
    ELSE "INVALID_CODE_POINT"

\* restore_it forgotten: the iterator stays where get_sequence_x left it.
restore_it_forgotten(original_it, reached) == reached

\* The failure branch of validate_next: the iterator, moved to `reached` by
\* get_sequence_x, is given its original value back.
restore_it(original_it, reached) == original_it

\* The end of validate_next: `g` is what get_sequence_x returned and `e` the
\* error after the security checks.  The caller's code_point, `cp0` on
\* entry, is assigned only on success.
validate_return(original_it, cp0, g, e) ==
    IF e = "UTF8_OK"
    THEN [err |-> "UTF8_OK", it |-> g.it + 1, cp |-> g.cp, reads |-> g.reads]
    ELSE [err |-> e, it |-> restore_it(original_it, g.it), cp |-> cp0,
          reads |-> g.reads]

validate_checks(original_it, cp0, length, g) ==
    validate_return(original_it, cp0, g,
        IF g.err = "UTF8_OK" THEN security_checks(g.cp, length) ELSE g.err)

\* The switch of validate_next on the length sequence_length gave.
validate_switch(b, i, end, cp0, length) ==
    IF length = 0
    THEN [err |-> "INVALID_LEAD", it |-> i, cp |-> cp0, reads |-> {i}]
    ELSE validate_checks(i, cp0, length,
            CASE length = 1 -> get_sequence_1(b, i, end)
              [] length = 2 -> get_sequence_2(b, i, end)
              [] length = 3 -> get_sequence_3(b, i, end)
              [] length = 4 -> get_sequence_4(b, i, end))

\* The octet sequence_length(it) has read, counted with the octets `v` tells
\* of.
lead_read(i, v) == [v EXCEPT !.reads = @ \cup {i}]

\* validate_next(it, end, code_point)
validate_next(b, i, end, cp0) ==
    lead_read(i, validate_switch(b, i, end, cp0, sequence_length(b, i)))

---------------------------------------------------------------------------
(* The public checked API.                                                 *)

NoExc == [type |-> "none", val |-> 0]

\* thrown_for with INVALID_CODE_POINT falling through to the invalid_utf8
\* throw of the cases above it.
thrown_for_fallthrough(e, octet, c) ==
    CASE e = "UTF8_OK" -> NoExc
      [] e = "NOT_ENOUGH_ROOM" -> [type |-> "not_enough_room", val |-> 0]
      [] OTHER -> [type |-> "invalid_utf8", val |-> U8(octet)]

\* The switch of next: the exception each utf_error is thrown as, `octet`
\* being *it and `c` the caller's cp when the throw is evaluated.
thrown_for(e, octet, c) ==
    CASE e = "UTF8_OK" -> NoExc
      [] e = "NOT_ENOUGH_ROOM" -> [type |-> "not_enough_room", val |-> 0]
      [] e \in {"INVALID_LEAD", "INCOMPLETE_SEQUENCE", "OVERLONG_SEQUENCE"} ->
           [type |-> "invalid_utf8", val |-> U8(octet)]
      [] e = "INVALID_CODE_POINT" -> [type |-> "invalid_code_point", val |-> c]

\* The octets next has read when its switch is done: invalid_utf8(*it) reads
\* the octet at the iterator.
thrown_reads(e, i, reads) ==
    IF e \in {"INVALID_LEAD", "INCOMPLETE_SEQUENCE", "OVERLONG_SEQUENCE"}
    THEN reads \cup {i}
    ELSE reads

\* next after its call of validate_next, which returned `v`.
next_switch(b, v) ==
    [err |-> v.err, it |-> v.it, cp |-> v.cp,
     exc |-> thrown_for(v.err, At(b, v.it), v.cp),
     reads |-> thrown_reads(v.err, v.it, v.reads)]

\* next(it, end): the code point, the iterator and the exception thrown.
next(b, i, end) == next_switch(b, validate_next(b, i, end, 0))

\* peek_next(it, end): next on a copy of the iterator.
peek_next(b, i, end) == next(b, i, end)

\* prior's loop stepping back one octet whatever the octet is.
prior_walk_one_octet(b, i, start) == [thrown |-> FALSE, it |-> i - 1]

\* The loop of prior: step back until an octet that is no continuation octet
\* is met; `i` is the iterator before the decrement.  Gives the iterator as
\* the loop leaves it and whether it left by the throw.
RECURSIVE prior_walk(_, _, _)
prior_walk(b, i, start) ==
    IF is_trail(At(b, i - 1))
    THEN IF i - 1 = start
         THEN [thrown |-> TRUE, it |-> i - 1]
         ELSE prior_walk(b, i - 1, start)
    ELSE [thrown |-> FALSE, it |-> i - 1]

\* The return of prior: `n` is what peek_next gave; the iterator stays on
\* `lead`, where the loop left it.
prior_return(lead, n) ==
    [err |-> n.err, it |-> lead, cp |-> n.cp, exc |-> n.exc]

\* prior after its loop, which gave `w`; `end` is the iterator on entry.
prior_decode(b, end, w) ==
    IF w.thrown
    THEN [err |-> "NOT_REACHED", it |-> w.it, cp |-> 0,
          exc |-> [type |-> "invalid_utf8", val |-> U8(At(b, w.it))]]
    ELSE prior_return(w.it, peek_next(b, w.it, end))

\* prior(it, start)
prior(b, i, start) ==
    IF i = start
    THEN [err |-> "NOT_REACHED", it |-> i, cp |-> 0,
          exc |-> [type |-> "not_enough_room", val |-> 0]]
    ELSE prior_decode(b, i, prior_walk(b, i, start))

---------------------------------------------------------------------------
(* The decoder's state machine: a caller holding a buffer and an iterator  *)
(* into it calls the checked operations, as utf8::iterator's operator++    *)
(* and operator-- do with range_start the start of the buffer and          *)
(* range_end its end.                                                      *)

Init ==
    /\ buf \in Buffers(MaxLen)
    /\ it \in 0..Len(buf)
    /\ prev = it
    /\ op = "none"
    /\ err = "NOT_REACHED"
    /\ exc = NoExc
    /\ cp = 0
    /\ arg = 0
    /\ out = <<>>
    /\ back = <<>>

\* A call of next or prior returns `r`: the iterator it was given by
\* reference, the code point returned, the exception thrown.
Returns(r) ==
    /\ it' = r.it
    /\ err' = r.err
    /\ cp' = r.cp
    /\ exc' = r.exc

\* utf8::next(it, end), which is internal::validate_next(it, end, cp) and the
\* throw its error selects, at a position before the end.
NextCall ==
    /\ it < Len(buf)
    /\ Returns(next(buf, it, Len(buf)))
    /\ prev' = it
    /\ op' = "next"
    /\ UNCHANGED <<buf, arg, out, back>>

\* utf8::prior(it, start) with start the start of the buffer.
PriorCall ==
    /\ Returns(prior(buf, it, 0))
    /\ prev' = it
    /\ op' = "prior"
    /\ UNCHANGED <<buf, arg, out, back>>

Next == NextCall \/ PriorCall

Spec == Init /\ [][Next]_vars

(* Backward iteration: a caller starts at the end of the buffer and calls  *)
(* prior with start the start of the buffer, as utf8::iterator's           *)
(* operator-- does, until a call throws; `arg` counts the calls made and   *)
(* `back` collects the code points returned.                               *)

InitBackward ==
    /\ buf \in Buffers(MaxLen)
    /\ it = Len(buf)
    /\ prev = it
    /\ op = "none"
    /\ err = "NOT_REACHED"
    /\ exc = NoExc
    /\ cp = 0
    /\ arg = 0
    /\ out = <<>>
    /\ back = <<>>

\* A call of prior in the loop returns `r`.
Visits(r) ==
    /\ Returns(r)
    /\ back' = IF r.exc.type = "none" THEN Append(back, r.cp) ELSE back

\* back.push_back(utf8::prior(it, start)), the loop having thrown nothing
\* so far.
PriorStep ==
    /\ exc.type = "none"
    /\ Visits(prior(buf, it, 0))
    /\ prev' = it
    /\ op' = "prior"
    /\ arg' = arg + 1
    /\ UNCHANGED <<buf, out>>

NextBackward == PriorStep

SpecBackward == InitBackward /\ [][NextBackward]_vars

(* The checked decode on a range [it, end) that lies inside a storage: the *)
(* storage `buf` has one octet after the range, which is what a dereference *)
(* of end yields, `arg` is end and `out` is the set of the positions whose  *)
(* octet the call has read.                                                *)

\* The longest range, and the octets the storage is made of.
MaxRangeLen == 4
RangeByteSet == {65, 128, 191, 194, 226, 240, 255}

InitRange ==
    /\ arg \in 0..MaxRangeLen
    /\ buf \in [1..(arg + 1) -> RangeByteSet]
    /\ it \in 0..arg
    /\ prev = it
    /\ op = "none"
    /\ err = "NOT_REACHED"
    /\ exc = NoExc
    /\ cp = 0
    /\ out = {}
    /\ back = <<>>

\* A call of next returns `r`, having read the octets at r.reads.
ReturnsHavingRead(r) ==
    /\ Returns(r)
    /\ out' = r.reads

\* utf8::next(it, end) at any position of the range, end included, as
\* utf8::iterator's operator* and operator++ call it.
NextInRange ==
    /\ op = "none"
    /\ ReturnsHavingRead(next(buf, it, arg))
    /\ prev' = it
    /\ op' = "next"
    /\ UNCHANGED <<buf, arg, back>>

NextRange == NextInRange

SpecRange == InitRange /\ [][NextRange]_vars

---------------------------------------------------------------------------
(* The encoder.                                                            *)

\* The sample of code points append is called with: the ends of every
\* length class, of the surrogate range and of the code space, values past
\* it, and every CpStride-th value up to CpSamples * CpStride.
CpSamples == 210
CpStride == 5461
CodePoints ==
    {0, 65, 127, 128, 2047, 2048, 4095, 4096, 55295, 55296, 56319, 56320,
     57343, 57344, 65533, 65535, 65536, 1114111, 1114112, 2097151, 2097152,
     2147483647}
    \cup {k * CpStride : k \in 0..CpSamples}

\* What the caller's output holds before the call.
Prefixes == {<< >>, <<65>>, <<194, 128>>}

\* append with the two octet form taken up to and including 0x800.
append_two_octets_too_far(c) ==
    IF ~is_code_point_valid(c)
    THEN [exc |-> [type |-> "invalid_code_point", val |-> c], bytes |-> << >>]
    ELSE [exc |-> NoExc,
          bytes |->
            IF c < 128 THEN <<U8(c)>>
            ELSE IF c <= 2048
                 THEN <<U8(BitOr(Shr(c, 6), 192)), U8(BitOr(LowBits(c, 6), 128))>>
            ELSE IF c < 65536
                 THEN <<U8(BitOr(Shr(c, 12), 224)),
                        U8(BitOr(LowBits(Shr(c, 6), 6), 128)),
                        U8(BitOr(LowBits(c, 6), 128))>>
                 ELSE <<U8(BitOr(Shr(c, 18), 240)),
                        U8(BitOr(LowBits(Shr(c, 12), 6), 128)),
                        U8(BitOr(LowBits(Shr(c, 6), 6), 128)),
                        U8(BitOr(LowBits(c, 6), 128))>>]

\* append(cp, result): the exception thrown and the octets written through
\* `result`, in order.
append(c) ==
    IF ~is_code_point_valid(c)
    THEN [exc |-> [type |-> "invalid_code_point", val |-> c], bytes |-> << >>]
    ELSE [exc |-> NoExc,
          bytes |->
            IF c < 128 THEN <<U8(c)>>
            ELSE IF c < 2048
                 THEN <<U8(BitOr(Shr(c, 6), 192)), U8(BitOr(LowBits(c, 6), 128))>>
            ELSE IF c < 65536
                 THEN <<U8(BitOr(Shr(c, 12), 224)),
                        U8(BitOr(LowBits(Shr(c, 6), 6), 128)),
                        U8(BitOr(LowBits(c, 6), 128))>>
                 ELSE <<U8(BitOr(Shr(c, 18), 240)),
                        U8(BitOr(LowBits(Shr(c, 12), 6), 128)),
                        U8(BitOr(LowBits(Shr(c, 6), 6), 128)),
                        U8(BitOr(LowBits(c, 6), 128))>>]

(* The encoder's state machine: the caller appends one code point to its   *)
(* output, `it` marking where the output ended before the call, and then   *)
(* decodes from there.                                                     *)

InitAppend ==
    /\ buf \in Prefixes
    /\ it = Len(buf)
    /\ prev = it
    /\ op = "none"
    /\ err = "NOT_REACHED"
    /\ exc = NoExc
    /\ cp = 0
    /\ arg \in CodePoints
    /\ out = << >>
    /\ back = << >>

\* A call of append returns `a`.
Appends(a) ==
    /\ buf' = buf \o a.bytes
    /\ out' = a.bytes
    /\ exc' = a.exc

\* utf8::append(arg, back_inserter(buf)); `out` keeps what the call wrote.
AppendCall ==
    /\ op = "none"
    /\ Appends(append(arg))
    /\ op' = "append"
    /\ UNCHANGED <<it, prev, err, cp, arg, back>>

NextAppend == AppendCall \/ NextCall

SpecAppend == InitAppend /\ [][NextAppend]_vars

---------------------------------------------------------------------------
(* The sanitizer.                                                          *)

\* The longest buffer handed to replace_invalid, and the octets it is made
\* of: ASCII, a continuation octet, an overlong and a valid lead of two
\* octets, a lead of four whose values are all above 0x10FFFF, and an octet
\* that is no lead.
MaxSanLen == 6
SanByteSet == {65, 128, 192, 194, 245, 255}

\* The replacement of the three argument replace_invalid.
replacement_marker == mask16(65533)

\* The replacements given: the default, '?', and a surrogate, which append
\* refuses.
Replacements == {replacement_marker, 63, 56320}

\* The inner loop of replace_invalid left out: nothing after the octet that
\* failed is skipped.
skip_trail_none(b, start, end) == start

\* while (start != end && is_trail(*start)) ++start;
RECURSIVE skip_trail(_, _, _)
skip_trail(b, start, end) ==
    IF start # end /\ is_trail(At(b, start))
    THEN skip_trail(b, start + 1, end)
    ELSE start

\* replace_case without the NOT_ENOUGH_ROOM label: the error is handled as
\* the other errors of a sequence are.
replace_case_no_throw(e) ==
    CASE e = "UTF8_OK" -> "copy"
      [] e = "INVALID_LEAD" -> "mark_octet"
      [] e \in {"NOT_ENOUGH_ROOM", "INCOMPLETE_SEQUENCE", "OVERLONG_SEQUENCE",
                "INVALID_CODE_POINT"} -> "mark_sequence"

\* The case of replace_invalid's switch an error code selects.
replace_case(e) ==
    CASE e = "UTF8_OK" -> "copy"
      [] e = "NOT_ENOUGH_ROOM" -> "throw"
      [] e = "INVALID_LEAD" -> "mark_octet"
      [] e \in {"INCOMPLETE_SEQUENCE", "OVERLONG_SEQUENCE",
                "INVALID_CODE_POINT"} -> "mark_sequence"

RECURSIVE replace_invalid(_, _, _, _, _)

\* replace_mark with the offending octet written after the replacement.
replace_mark_keeps_octet(b, start, resume, end, o, replacement, a) ==
    IF a.exc.type # "none"
    THEN [out |-> o, it |-> start, exc |-> a.exc]
    ELSE replace_invalid(b, resume, end, o \o a.bytes \o <<At(b, start)>>,
                         replacement)

\* out = append(replacement, out), which returned `a`, and what follows it in
\* its case: the loop goes on from `resume` unless append threw.
replace_mark(b, start, resume, end, o, replacement, a) ==
    IF a.exc.type # "none"
    THEN [out |-> o, it |-> start, exc |-> a.exc]
    ELSE replace_invalid(b, resume, end, o \o a.bytes, replacement)

\* The body of replace_invalid's loop after its call of validate_next, which
\* returned `v`; sequence_start is the position the call was made at.
replace_switch(b, sequence_start, end, o, replacement, v) ==
    CASE replace_case(v.err) = "copy" ->
           replace_invalid(b, v.it, end,
                           o \o SubSeq(b, sequence_start + 1, v.it), replacement)
      [] replace_case(v.err) = "throw" ->
           [out |-> o, it |-> v.it, exc |-> [type |-> "not_enough_room", val |-> 0]]
      [] replace_case(v.err) = "mark_octet" ->
           replace_mark(b, v.it, v.it + 1, end, o, replacement,
                        append(replacement))
      [] replace_case(v.err) = "mark_sequence" ->
           replace_mark(b, v.it, skip_trail(b, v.it + 1, end), end, o,
                        replacement, append(replacement))

\* replace_invalid(start, end, out, replacement): the output written, the
\* position `start` had when the call ended, and the exception thrown.
replace_invalid(b, start, end, o, replacement) ==
    IF start = end
    THEN [out |-> o, it |-> start, exc |-> NoExc]
    ELSE replace_switch(b, start, end, o, replacement,
                        validate_next(b, start, end, 0))

(* The sanitizer's state machine: the caller hands a whole buffer and a    *)
(* replacement to replace_invalid, with an empty output.                   *)

InitSanitize ==
    /\ buf \in UNION {[1..k -> SanByteSet] : k \in 0..MaxSanLen}
    /\ it = 0
    /\ prev = 0
    /\ op = "none"
    /\ err = "NOT_REACHED"
    /\ exc = NoExc
    /\ cp = 0
    /\ arg \in Replacements
    /\ out = << >>
    /\ back = << >>

\* A call of replace_invalid returns `r`; `it` keeps the position its loop
\* had reached.
Sanitizes(r) ==
    /\ out' = r.out
    /\ it' = r.it
    /\ exc' = r.exc

\* utf8::replace_invalid(buf.begin(), buf.end(), back_inserter(out), arg)
ReplaceInvalidCall ==
    /\ op = "none"
    /\ Sanitizes(replace_invalid(buf, 0, Len(buf), << >>, arg))
    /\ op' = "replace_invalid"
    /\ UNCHANGED <<buf, prev, err, cp, arg, back>>

NextSanitize == ReplaceInvalidCall

SpecSanitize == InitSanitize /\ [][NextSanitize]_vars

(* Validation, and the sanitizer applied to its own output.                *)

RECURSIVE find_invalid(_, _, _)

\* The body of find_invalid's loop after its call of validate_next, which
\* returned `v` and left `result` at v.it.
find_invalid_step(b, end, v) ==
    IF v.err # "UTF8_OK" THEN v.it ELSE find_invalid(b, v.it, end)

\* find_invalid(start, end): the position of the first invalid sequence.
find_invalid(b, start, end) ==
    IF start = end THEN start
    ELSE find_invalid_step(b, end, validate_next(b, start, end, 0))

\* is_valid(start, end)
is_valid(b, start, end) == find_invalid(b, start, end) = end

\* A second call of replace_invalid returns `r`.
SanitizesAgain(r) ==
    /\ back' = r.out
    /\ it' = r.it
    /\ exc' = r.exc

\* utf8::find_invalid(out.begin(), out.end()) on what a completed call of
\* replace_invalid wrote; `it` takes the position returned.
FindInvalidCall ==
    /\ op = "replace_invalid"
    /\ exc.type = "none"
    /\ it' = find_invalid(out, 0, Len(out))
    /\ op' = "find_invalid"
    /\ UNCHANGED <<buf, prev, err, exc, cp, arg, out, back>>

\* utf8::replace_invalid(out.begin(), out.end(), back_inserter(back), arg)
\* on what a completed call of replace_invalid wrote.
ReplaceInvalidAgainCall ==
    /\ op = "replace_invalid"
    /\ exc.type = "none"
    /\ SanitizesAgain(replace_invalid(out, 0, Len(out), << >>, arg))
    /\ op' = "replace_invalid_again"
    /\ UNCHANGED <<buf, prev, err, cp, arg, out>>

NextResanitize == ReplaceInvalidCall \/ FindInvalidCall \/ ReplaceInvalidAgainCall

SpecResanitize == InitSanitize /\ [][NextResanitize]_vars

---------------------------------------------------------------------------
(* The bulk converters.                                                    *)

\* The longest buffer handed to the converters, and the octets it is made
\* of: ASCII, continuation octets, and leads of two, three and four octets
\* with which the first and the last code point above 0xFFFF can be spelled.
MaxConvLen == 5
ConvByteSet == {65, 128, 143, 144, 191, 194, 239, 240, 244}

\* cp = (cp << 10) + trail_surrogate + SURROGATE_OFFSET, in uint32_t
combine_surrogates(lead, trail) ==
    Val32(Add32(Add32(Shl32(W32(lead), 10), W32(trail)), SURROGATE_OFFSET))

\* The units utf8to16 writes for one code point.
utf16_units(c) ==
    IF c > 65535
    THEN <<U16(Shr(c, 10) + LEAD_OFFSET), U16(LowBits(c, 10) + TRAIL_SURROGATE_MIN)>>
    ELSE <<U16(c)>>

RECURSIVE utf16to8(_, _, _, _)

\* result = append(cp, result), which returned `a`, and the loop after it.
utf16to8_append(u, start, end, o, a) ==
    IF a.exc.type # "none"
    THEN [out |-> o, exc |-> a.exc]
    ELSE utf16to8(u, start, end, o \o a.bytes)

\* The trail surrogate read after a lead surrogate; `start` is past it.
utf16to8_pair(u, start, end, o, c, trail_surrogate) ==
    IF is_trail_surrogate(trail_surrogate)
    THEN utf16to8_append(u, start, end, o,
                         append(combine_surrogates(c, trail_surrogate)))
    ELSE [out |-> o, exc |-> [type |-> "invalid_utf16", val |-> U16(trail_surrogate)]]

\* utf16to8's loop body without its test for a lone trail surrogate.
utf16to8_unit_lone_trail_passed(u, start, end, o, c) ==
    IF is_lead_surrogate(c)
    THEN IF start # end
         THEN utf16to8_pair(u, start + 1, end, o, c, mask16(At(u, start)))
         ELSE [out |-> o, exc |-> [type |-> "invalid_utf16", val |-> U16(c)]]
    ELSE utf16to8_append(u, start, end, o, append(c))

\* The body of utf16to8's loop for the unit `c` just read; `start` is past it.
utf16to8_unit(u, start, end, o, c) ==
    IF is_lead_surrogate(c)
    THEN IF start # end
         THEN utf16to8_pair(u, start + 1, end, o, c, mask16(At(u, start)))
         ELSE [out |-> o, exc |-> [type |-> "invalid_utf16", val |-> U16(c)]]
    ELSE IF is_trail_surrogate(c)
         THEN [out |-> o, exc |-> [type |-> "invalid_utf16", val |-> U16(c)]]
         ELSE utf16to8_append(u, start, end, o, append(c))

\* utf16to8(start, end, result): the octets written and the exception thrown.
utf16to8(u, start, end, o) ==
    IF start = end THEN [out |-> o, exc |-> NoExc]
    ELSE utf16to8_unit(u, start + 1, end, o, mask16(At(u, start)))

RECURSIVE utf8to16(_, _, _, _)

\* The body of utf8to16's loop after its call of next, which returned `n`.
utf8to16_unit(b, end, o, n) ==
    IF n.exc.type # "none"
    THEN [out |-> o, exc |-> n.exc]
    ELSE utf8to16(b, n.it, end, o \o utf16_units(n.cp))

\* utf8to16(start, end, result): the units written and the exception thrown.
utf8to16(b, start, end, o) ==
    IF start = end THEN [out |-> o, exc |-> NoExc]
    ELSE utf8to16_unit(b, end, o, next(b, start, end))

RECURSIVE utf32to8(_, _, _, _)

\* result = append(*(start++), result), which returned `a`, and the loop
\* after it.
utf32to8_append(u, start, end, o, a) ==
    IF a.exc.type # "none"
    THEN [out |-> o, exc |-> a.exc]
    ELSE utf32to8(u, start, end, o \o a.bytes)

\* utf32to8(start, end, result)
utf32to8(u, start, end, o) ==
    IF start = end THEN [out |-> o, exc |-> NoExc]
    ELSE utf32to8_append(u, start + 1, end, o, append(At(u, start)))

RECURSIVE utf8to32(_, _, _, _)

\* The body of utf8to32's loop after its call of next, which returned `n`.
utf8to32_unit(b, end, o, n) ==
    IF n.exc.type # "none"
    THEN [out |-> o, exc |-> n.exc]
    ELSE utf8to32(b, n.it, end, Append(o, n.cp))

\* utf8to32(start, end, result)
utf8to32(b, start, end, o) ==
    IF start = end THEN [out |-> o, exc |-> NoExc]
    ELSE utf8to32_unit(b, end, o, next(b, start, end))

(* The converters' state machine: the caller converts a buffer to UTF-16   *)
(* or UTF-32 into `out`, and, when that completed, converts `out` to UTF-8 *)
(* into `back`.                                                            *)

InitConv ==
    /\ buf \in UNION {[1..k -> ConvByteSet] : k \in 0..MaxConvLen}
    /\ it = 0
    /\ prev = 0
    /\ op = "none"
    /\ err = "NOT_REACHED"
    /\ exc = NoExc
    /\ cp = 0
    /\ arg = 0
    /\ out = << >>
    /\ back = << >>

\* A converter from UTF-8 returns `r`.
ConvertsOut(r) ==
    /\ out' = r.out
    /\ exc' = r.exc

\* A converter to UTF-8 returns `r`.
ConvertsBack(r) ==
    /\ back' = r.out
    /\ exc' = r.exc

\* utf8::utf8to16(buf.begin(), buf.end(), back_inserter(out))
Utf8to16Call ==
    /\ op = "none"
    /\ ConvertsOut(utf8to16(buf, 0, Len(buf), << >>))
    /\ op' = "utf8to16"
    /\ UNCHANGED <<buf, it, prev, err, cp, arg, back>>

\* utf8::utf16to8(out.begin(), out.end(), back_inserter(back))
Utf16to8Call ==
    /\ op = "utf8to16"
    /\ exc.type = "none"
    /\ ConvertsBack(utf16to8(out, 0, Len(out), << >>))
    /\ op' = "utf16to8"
    /\ UNCHANGED <<buf, it, prev, err, cp, arg, out>>

\* utf8::utf8to32(buf.begin(), buf.end(), back_inserter(out))
Utf8to32Call ==
    /\ op = "none"
    /\ ConvertsOut(utf8to32(buf, 0, Len(buf), << >>))
    /\ op' = "utf8to32"
    /\ UNCHANGED <<buf, it, prev, err, cp, arg, back>>

\* utf8::utf32to8(out.begin(), out.end(), back_inserter(back))
Utf32to8Call ==
    /\ op = "utf8to32"
    /\ exc.type = "none"
    /\ ConvertsBack(utf32to8(out, 0, Len(out), << >>))
    /\ op' = "utf32to8"
    /\ UNCHANGED <<buf, it, prev, err, cp, arg, out>>

NextConv == Utf8to16Call \/ Utf16to8Call \/ Utf8to32Call \/ Utf32to8Call

SpecConv == InitConv /\ [][NextConv]_vars

(* utf16to8 on 16 bit units of the caller's own: `out` holds the units and *)
(* `back` receives the octets.                                             *)

\* The longest sequence of units, and the units it is made of: the ends of
\* the length classes of UTF-8 below 0x10000 and of the two surrogate ranges.
MaxUnits == 4
UnitSet == {65, 2047, 2048, 55295, 55296, 56319, 56320, 57343, 57344, 65535}

InitUtf16 ==
    /\ out \in UNION {[1..k -> UnitSet] : k \in 0..MaxUnits}
    /\ buf = << >>
    /\ it = 0
    /\ prev = 0
    /\ op = "none"
    /\ err = "NOT_REACHED"
    /\ exc = NoExc
    /\ cp = 0
    /\ arg = 0
    /\ back = << >>

\* utf8::utf16to8(out.begin(), out.end(), back_inserter(back))
Utf16to8OfUnits ==
    /\ op = "none"
    /\ ConvertsBack(utf16to8(out, 0, Len(out), << >>))
    /\ op' = "utf16to8"
    /\ UNCHANGED <<buf, it, prev, err, cp, arg, out>>

NextUtf16 == Utf16to8OfUnits

SpecUtf16 == InitUtf16 /\ [][NextUtf16]_vars

---------------------------------------------------------------------------
(* Reference definitions the properties are stated with.  They restate     *)
(* UTF-8 from the standard, not from the code.                             *)

ErrorKinds == {"INVALID_LEAD", "NOT_ENOUGH_ROOM", "INCOMPLETE_SEQUENCE",
               "INVALID_CODE_POINT", "OVERLONG_SEQUENCE"}

IsScalarValue(c) == c \in 0..1114111 /\ ~(c \in 55296..57343)

\* The UTF-8 encoding form of a scalar value (Unicode, Table 3-6).
Utf8Of(c) ==
    IF c < 128 THEN <<c>>
    ELSE IF c < 2048 THEN <<192 + (c \div 64), 128 + (c % 64)>>
    ELSE IF c < 65536
         THEN <<224 + (c \div 4096), 128 + ((c \div 64) % 64), 128 + (c % 64)>>
         ELSE <<240 + (c \div 262144), 128 + ((c \div 4096) % 64),
                128 + ((c \div 64) % 64), 128 + (c % 64)>>

MinimalLength(c) ==
    IF c < 128 THEN 1 ELSE IF c < 2048 THEN 2 ELSE IF c < 65536 THEN 3 ELSE 4

IsCont(x) == x \in 128..191

\* The length the lead octet x declares, 0 for an octet that is no lead.
DeclaredLength(x) ==
    IF x \in 0..127 THEN 1
    ELSE IF x \in 192..223 THEN 2
    ELSE IF x \in 224..239 THEN 3
    ELSE IF x \in 240..247 THEN 4
    ELSE 0

\* The well-formed UTF-8 octet sequences (Unicode, Table 3-7): the length of
\* the well-formed unit that starts at p and lies inside [p, end), 0 if none.
WellFormedLengthAt(b, p, end) ==
    LET n == end - p
        b0 == b[p + 1]
        b1 == b[p + 2]
        b2 == b[p + 3]
        b3 == b[p + 4]
    IN  IF n >= 1 /\ b0 \in 0..127 THEN 1
        ELSE IF n >= 2 /\ b0 \in 194..223 /\ IsCont(b1) THEN 2
        ELSE IF n >= 3 /\ IsCont(b2)
                /\ \/ b0 = 224 /\ b1 \in 160..191
                   \/ b0 \in 225..236 /\ IsCont(b1)
                   \/ b0 = 237 /\ b1 \in 128..159
                   \/ b0 \in 238..239 /\ IsCont(b1)
             THEN 3
        ELSE IF n >= 4 /\ IsCont(b2) /\ IsCont(b3)
                /\ \/ b0 = 240 /\ b1 \in 144..191
                   \/ b0 \in 241..243 /\ IsCont(b1)
                   \/ b0 = 244 /\ b1 \in 128..143
             THEN 4
        ELSE 0

\* The number of octets from p up to the first one in [p + 1, end) that is
\* no continuation octet, or up to end.
RECURSIVE ContRun(_, _, _)
ContRun(b, p, end) ==
    IF p + 1 < end /\ IsCont(b[p + 2]) THEN 1 + ContRun(b, p + 1, end) ELSE 1

\* The value the payload bits of the L octets at p spell.
RawValue(b, p, L) ==
    CASE L = 1 -> b[p + 1]
      [] L = 2 -> (b[p + 1] % 32) * 64 + (b[p + 2] % 64)
      [] L = 3 -> (b[p + 1] % 16) * 4096 + (b[p + 2] % 64) * 64 + (b[p + 3] % 64)
      [] L = 4 -> (b[p + 1] % 8) * 262144 + (b[p + 2] % 64) * 4096
                  + (b[p + 3] % 64) * 64 + (b[p + 4] % 64)

---------------------------------------------------------------------------
(* Properties of the checked decoder.                                      *)

\* C1: after a checked decode at position prev < end, the iterator is at
\* prev + L on success, L the length the lead octet at prev declares, and at
\* prev, where it was before the call, on each of the five failures.
C1_PositionAfterDecode ==
    op = "next" =>
        IF err = "UTF8_OK"
        THEN it = prev + DeclaredLength(buf[prev + 1])
        ELSE err \in ErrorKinds /\ it = prev

\* A failed decode of a three octet sequence, whose last octet was reached
\* before the security checks rejected it, not at the start of the buffer.
C1_Witness ==
    /\ op = "next"
    /\ err = "INVALID_CODE_POINT"
    /\ prev > 0
    /\ DeclaredLength(buf[prev + 1]) = 3
    /\ it = prev

\* C2: the checked decode at prev succeeds exactly when a well-formed UTF-8
\* unit (the minimal encoding of a scalar value) starts at prev and lies
\* inside the buffer, and then it reports the scalar value that unit encodes.
C2_SuccessIffWellFormed ==
    op = "next" =>
        /\ (err = "UTF8_OK") <=> (WellFormedLengthAt(buf, prev, Len(buf)) > 0)
        /\ err = "UTF8_OK" =>
              /\ IsScalarValue(cp)
              /\ it - prev = MinimalLength(cp)
              /\ SubSeq(buf, prev + 1, it) = Utf8Of(cp)

\* An overlong form (C0 80), rejected.
C2_Witness ==
    /\ op = "next"
    /\ SubSeq(buf, prev + 1, Len(buf)) = <<192, 128>>
    /\ err = "OVERLONG_SEQUENCE"

\* C3 as claimed: the first applicable kind in the order INVALID_LEAD,
\* NOT_ENOUGH_ROOM, INCOMPLETE_SEQUENCE, INVALID_CODE_POINT,
\* OVERLONG_SEQUENCE, so that a valid lead with fewer than `length` octets
\* left always gives NOT_ENOUGH_ROOM and INCOMPLETE_SEQUENCE is given only
\* when all `length` octets are there.
C3_KindOrderAsClaimed ==
    op = "next" =>
        LET L == DeclaredLength(buf[prev + 1])
            left == Len(buf) - prev
        IN  /\ L = 0 => err = "INVALID_LEAD"
            /\ (L > 0 /\ left < L) => err = "NOT_ENOUGH_ROOM"
            /\ err = "INCOMPLETE_SEQUENCE" =>
                  /\ left >= L
                  /\ \E k \in 1..(L - 1) : ~IsCont(buf[prev + k + 1])

\* C3 as the code has it: the octets after the lead are taken one at a time,
\* and for each the end of the range is tested before the continuation test.
\* With r the number of octets from prev to the first octet that is no
\* continuation octet (or to the end): NOT_ENOUGH_ROOM when the range ends
\* before `length` octets and every octet after the lead is a continuation
\* octet; INCOMPLETE_SEQUENCE when an octet that is no continuation octet
\* comes before the `length`-th, even with fewer than `length` octets left;
\* and of a complete sequence, the validity of the value is tested before
\* the length of the encoding.
C3_KindOrder ==
    op = "next" =>
        LET L == DeclaredLength(buf[prev + 1])
            left == Len(buf) - prev
            r == ContRun(buf, prev, Len(buf))
        IN  IF L = 0 THEN err = "INVALID_LEAD"
            ELSE IF r < L
                 THEN IF r = left THEN err = "NOT_ENOUGH_ROOM"
                                  ELSE err = "INCOMPLETE_SEQUENCE"
            ELSE IF ~IsScalarValue(RawValue(buf, prev, L))
                 THEN err = "INVALID_CODE_POINT"
            ELSE IF MinimalLength(RawValue(buf, prev, L)) # L
                 THEN err = "OVERLONG_SEQUENCE"
            ELSE err = "UTF8_OK"

\* A surrogate spelled in four octets (F0 8D BF BF): both defects, and the
\* one reported is the invalid code point.
C3_Witness ==
    /\ op = "next"
    /\ SubSeq(buf, prev + 1, Len(buf)) = <<240, 141, 191, 191>>
    /\ err = "INVALID_CODE_POINT"

\* C8 as claimed: two failed calls whose decoder reported different kinds
\* never throw the same thing.
C8_KindsDistinctAsClaimed ==
    [][(/\ err \in ErrorKinds
        /\ err' \in ErrorKinds
        /\ err' # err) => exc' # exc]_vars

\* C8 as the code has it: three exceptions for five kinds.  NOT_ENOUGH_ROOM
\* alone is thrown as not_enough_room and INVALID_CODE_POINT alone as
\* invalid_code_point; INVALID_LEAD, INCOMPLETE_SEQUENCE and
\* OVERLONG_SEQUENCE are all thrown as invalid_utf8 carrying the octet at the
\* position of the call, and nothing tells them apart.
C8_ThreeExceptions ==
    (op \in {"next", "prior"} /\ err # "NOT_REACHED") =>
        /\ (exc.type = "none") <=> (err = "UTF8_OK")
        /\ (exc.type = "not_enough_room") <=> (err = "NOT_ENOUGH_ROOM")
        /\ (exc.type = "invalid_code_point") <=> (err = "INVALID_CODE_POINT")
        /\ (exc.type = "invalid_utf8") <=>
              (err \in {"INVALID_LEAD", "INCOMPLETE_SEQUENCE", "OVERLONG_SEQUENCE"})
        /\ exc.type = "invalid_utf8" => exc.val = buf[it + 1]

\* A value above 0x10FFFF (F4 BF BF BF) thrown as invalid_code_point.
C8_Witness ==
    /\ op = "next"
    /\ err = "INVALID_CODE_POINT"
    /\ exc.type = "invalid_code_point"
    /\ SubSeq(buf, prev + 1, Len(buf)) = <<244, 191, 191, 191>>

\* C9: a checked backward step leaves the iterator on the lead octet of the
\* unit it decoded, or, when it throws, where it was before the call.
C9_PriorRestoresPosition ==
    op = "prior" =>
        IF exc.type = "none"
        THEN it < prev /\ ~IsCont(buf[it + 1])
        ELSE it = prev

---------------------------------------------------------------------------
(* Properties of the encoder.                                              *)

\* C4: for every valid code point, append succeeds and writes the minimal
\* number of octets for it, and the checked decode of what it wrote succeeds,
\* yields that code point and consumes exactly the octets written.
C4_AppendThenDecode ==
    /\ (op = "append" /\ IsScalarValue(arg)) =>
          /\ exc.type = "none"
          /\ Len(out) = MinimalLength(arg)
          /\ Len(buf) = it + Len(out)
    /\ (op = "next" /\ out # << >>) =>
          /\ err = "UTF8_OK"
          /\ exc.type = "none"
          /\ cp = arg
          /\ it = prev + Len(out)
          /\ it = Len(buf)

\* The last code point, U+10FFFF, written in four octets and decoded back.
C4_Witness ==
    /\ op = "next"
    /\ arg = 1114111
    /\ Len(out) = 4
    /\ cp = 1114111
    /\ prev > 0

\* C5: append of a surrogate or of a value above 0x10FFFF throws
\* invalid_code_point and leaves the output as it was.
C5_AppendRejectsInvalid ==
    [][(op = "none" /\ op' = "append" /\ ~IsScalarValue(arg)) =>
          /\ exc' = [type |-> "invalid_code_point", val |-> arg]
          /\ buf' = buf
          /\ out' = << >>]_vars

\* A lead surrogate refused, with output already there.
C5_Witness ==
    /\ op = "append"
    /\ arg = 55296
    /\ exc.type = "invalid_code_point"
    /\ buf = <<65>>

---------------------------------------------------------------------------
(* Properties of the sanitizer.                                            *)

\* What is put for the malformed octets: r in UTF-8.
Mark(r) == Utf8Of(r)

\* The output with one replacement for each maximal run of octets that
\* belong to no well-formed unit; inRun says that the octet before p is part
\* of such a run.
RECURSIVE OnePerRun(_, _, _, _)
OnePerRun(b, p, r, inRun) ==
    IF p = Len(b) THEN << >>
    ELSE IF WellFormedLengthAt(b, p, Len(b)) > 0
         THEN SubSeq(b, p + 1, p + WellFormedLengthAt(b, p, Len(b)))
              \o OnePerRun(b, p + WellFormedLengthAt(b, p, Len(b)), r, FALSE)
         ELSE (IF inRun THEN << >> ELSE Mark(r)) \o OnePerRun(b, p + 1, r, TRUE)

\* The output with one replacement for each malformed sequence: an octet
\* that is no lead alone, a lead together with the continuation octets that
\* follow it.
RECURSIVE OnePerSequence(_, _, _)
OnePerSequence(b, p, r) ==
    IF p = Len(b) THEN << >>
    ELSE IF WellFormedLengthAt(b, p, Len(b)) > 0
         THEN SubSeq(b, p + 1, p + WellFormedLengthAt(b, p, Len(b)))
              \o OnePerSequence(b, p + WellFormedLengthAt(b, p, Len(b)), r)
         ELSE IF DeclaredLength(b[p + 1]) = 0
              THEN Mark(r) \o OnePerSequence(b, p + 1, r)
              ELSE Mark(r) \o OnePerSequence(b, p + ContRun(b, p, Len(b)), r)

\* The buffer ends inside a truncated unit: a lead followed, up to the end,
\* by continuation octets only, and by fewer of them than it declares.
TruncatedTail(b) ==
    \E p \in 0..(Len(b) - 1) :
        /\ DeclaredLength(b[p + 1]) > Len(b) - p
        /\ \A q \in (p + 1)..(Len(b) - 1) : IsCont(b[q + 1])

Completed == op = "replace_invalid" /\ exc.type = "none"

\* C6 as claimed: when replace_invalid completes, every well-formed unit is
\* copied and every maximal malformed run is replaced by exactly one
\* replacement.
C6_OneMarkPerRunAsClaimed ==
    (Completed /\ IsScalarValue(arg)) => out = OnePerRun(buf, 0, arg, FALSE)

\* C6 as the code has it: when replace_invalid completes, every well-formed
\* unit is copied and every malformed sequence is replaced by exactly one
\* replacement, a malformed sequence being an octet that is no lead, alone,
\* or a lead with the continuation octets after it; a run of several such
\* sequences gets as many replacements.
C6_OneMarkPerSequence ==
    (Completed /\ IsScalarValue(arg)) => out = OnePerSequence(buf, 0, arg)

\* An overlong lead and the continuation octets after it replaced by one
\* mark, between two units that are copied.
C6_Witness ==
    /\ Completed
    /\ buf = <<65, 192, 128, 128, 65>>
    /\ arg = 65533
    /\ out = <<65, 239, 191, 189, 65>>

\* C7: with a valid replacement, replace_invalid throws not_enough_room
\* exactly when the buffer ends inside a truncated unit, and on every other
\* buffer it completes with the whole input consumed.
C7_FatalIffTruncated ==
    (op = "replace_invalid" /\ IsScalarValue(arg)) =>
        IF TruncatedTail(buf)
        THEN exc.type = "not_enough_room"
        ELSE exc.type = "none" /\ it = Len(buf)

\* A buffer with an octet that is no lead, an overlong sequence and an
\* incomplete one, sanitized to its end.
C7_Witness ==
    /\ Completed
    /\ buf = <<255, 192, 128, 194, 65>>
    /\ arg = 63
    /\ it = 5

---------------------------------------------------------------------------
(* Properties of the bulk converters.                                      *)

\* The buffer is a sequence of well-formed units from p to its end.
RECURSIVE WellFormedFrom(_, _)
WellFormedFrom(b, p) ==
    \/ p = Len(b)
    \/ /\ WellFormedLengthAt(b, p, Len(b)) > 0
       /\ WellFormedFrom(b, p + WellFormedLengthAt(b, p, Len(b)))

\* C10: on a well-formed buffer utf8to16 and utf8to32 complete, and
\* utf16to8 of what utf8to16 wrote, and utf32to8 of what utf8to32 wrote, is
\* the buffer again.
C10_RoundTrip ==
    WellFormedFrom(buf, 0) =>
        /\ op \in {"utf8to16", "utf8to32"} => exc.type = "none"
        /\ op \in {"utf16to8", "utf32to8"} => exc.type = "none" /\ back = buf

\* U+10FFFF and an ASCII letter, through the surrogate pair DBFF DFFF.
C10_Witness ==
    /\ op = "utf16to8"
    /\ buf = <<244, 143, 191, 191, 65>>
    /\ out = <<56319, 57343, 65>>
    /\ back = buf

---------------------------------------------------------------------------
(* Properties of utf16to8 on arbitrary 16 bit units.                       *)

IsLeadUnit(x) == x \in 55296..56319
IsTrailUnit(x) == x \in 56320..57343

\* The units from p on are well-formed UTF-16: every lead surrogate is
\* followed by a trail surrogate and every trail surrogate follows a lead.
RECURSIVE WellFormedUtf16From(_, _)
WellFormedUtf16From(u, p) ==
    IF p = Len(u) THEN TRUE
    ELSE IF IsLeadUnit(u[p + 1])
         THEN /\ p + 1 < Len(u)
              /\ IsTrailUnit(u[p + 2])
              /\ WellFormedUtf16From(u, p + 2)
         ELSE ~IsTrailUnit(u[p + 1]) /\ WellFormedUtf16From(u, p + 1)

\* The scalar value of a surrogate pair (Unicode, Table 3-5).
PairValue(lead, trail) == 65536 + (lead - 55296) * 1024 + (trail - 56320)

\* The UTF-8 form of well-formed UTF-16 units from p on.
RECURSIVE Utf8OfUtf16(_, _)
Utf8OfUtf16(u, p) ==
    IF p = Len(u) THEN << >>
    ELSE IF IsLeadUnit(u[p + 1])
         THEN Utf8Of(PairValue(u[p + 1], u[p + 2])) \o Utf8OfUtf16(u, p + 2)
         ELSE Utf8Of(u[p + 1]) \o Utf8OfUtf16(u, p + 1)

\* C11: utf16to8 throws invalid_utf16 exactly when the units are not
\* well-formed UTF-16, and on well-formed units it completes having written
\* the UTF-8 form of every unit and of every surrogate pair's code point.
C11_InvalidUtf16Iff ==
    op = "utf16to8" =>
        IF WellFormedUtf16From(out, 0)
        THEN exc.type = "none" /\ back = Utf8OfUtf16(out, 0)
        ELSE exc.type = "invalid_utf16"

\* A lead surrogate as the last unit, after a pair that was converted.
C11_Witness ==
    /\ op = "utf16to8"
    /\ out = <<65, 56319, 57343, 55296>>
    /\ exc = [type |-> "invalid_utf16", val |-> 55296]
    /\ back = <<65, 244, 143, 191, 191>>

---------------------------------------------------------------------------
(* Properties of backward iteration.                                       *)

\* The scalar values of the well-formed units from p to the end of b.
RECURSIVE ScalarsFrom(_, _)
ScalarsFrom(b, p) ==
    IF p = Len(b) THEN << >>
    ELSE <<RawValue(b, p, WellFormedLengthAt(b, p, Len(b)))>>
         \o ScalarsFrom(b, p + WellFormedLengthAt(b, p, Len(b)))

\* The positions the well-formed units from p on start at, and the end.
RECURSIVE StartsFrom(_, _)
StartsFrom(b, p) ==
    IF p = Len(b) THEN <<p>>
    ELSE <<p>> \o StartsFrom(b, p + WellFormedLengthAt(b, p, Len(b)))

\* The last k elements of s, last one first.
LastReversed(s, k) == [i \in 1..k |-> s[Len(s) + 1 - i]]

\* C12: on a well-formed buffer of N code points each of the first N calls
\* of prior from the end succeeds, the code points come last one first,
\* the iterator is after k calls on the start of the k-th unit from the end,
\* so at the start of the buffer after N calls and not before, and the call
\* after the N-th throws.
C12_BackwardIteration ==
    WellFormedFrom(buf, 0) =>
        LET N == Len(ScalarsFrom(buf, 0))
        IN  IF arg <= N
            THEN /\ exc.type = "none"
                 /\ back = LastReversed(ScalarsFrom(buf, 0), arg)
                 /\ it = StartsFrom(buf, 0)[N + 1 - arg]
                 /\ (it = 0) = (arg = N)
            ELSE /\ arg = N + 1
                 /\ exc.type = "not_enough_room"
                 /\ it = 0
                 /\ back = LastReversed(ScalarsFrom(buf, 0), N)

\* Three code points, of one and of two octets, visited from the end, and
\* the call after them.
C12_Witness ==
    /\ buf = <<65, 194, 128, 65>>
    /\ arg = 4
    /\ back = <<65, 128, 65>>
    /\ exc.type = "not_enough_room"

---------------------------------------------------------------------------
(* Properties of a single backward step.                                   *)

\* C13: when prior succeeds from position prev and leaves the iterator at
\* it, the lead octet at it declares exactly prev - it octets, so the unit
\* decoded is all of [it, prev).
C13_PriorUnitFillsGap ==
    (op = "prior" /\ exc.type = "none") =>
        DeclaredLength(buf[it + 1]) = prev - it

---------------------------------------------------------------------------
(* Properties of the checked decode's reads.                               *)

\* C14: a checked decode at a position prev <= end reads octets at positions
\* of [prev, end) only, whatever it returns.
C14_ReadsInsideRange ==
    op = "next" => out \subseteq prev..(arg - 1)

---------------------------------------------------------------------------
(* Properties of the sanitizer's output.                                   *)

\* C15: with a valid replacement, what a completed call of replace_invalid
\* wrote is well-formed, find_invalid of it returns its end so that is_valid
\* is true, and replace_invalid of it completes and writes it again
\* unchanged.
C15_OutputValidAndStable ==
    IsScalarValue(arg) =>
        /\ op = "find_invalid" =>
             /\ it = Len(out)
             /\ is_valid(out, 0, Len(out))
             /\ WellFormedFrom(out, 0)
        /\ op = "replace_invalid_again" =>
             /\ exc.type = "none"
             /\ it = Len(out)
             /\ back = out

\* Two marks written for two malformed octets, and written again by the
\* second call.
C15_Witness ==
    /\ op = "replace_invalid_again"
    /\ buf = <<65, 255, 128>>
    /\ arg = 65533
    /\ out = <<65, 239, 191, 189, 239, 191, 189>>
    /\ back = out

=============================================================================
